---------------------------- MODULE Spec2Model ----------------------------
(***************************************************************************)
(* CameraMonitor (src/agent/vigi_agent/camera_monitor.py): the acquisition *)
(* loop of one camera, its motion callback and its padding countdown.      *)
(*                                                                         *)
(* One action is one pass through a handler: opening the device, one loop  *)
(* iteration whose read failed, one loop iteration whose read succeeded    *)
(* (detector update, callback, publish, drain decision, add_frame, FPS     *)
(* update), and the exit hook of main.py.                                  *)
(*                                                                         *)
(* FPS values are Python floats.  They are kept here in fixed point, in    *)
(* units of 1/FpsScale frames per second, and so is add_frames (in units   *)
(* of 1/FpsScale frames): "add_frames -= 1" subtracts FpsScale.            *)
(*                                                                         *)
(* MotionDetector, FPSCalculator, PubSub and VideoRecorder are not part of *)
(* the sources at hand; they are modelled from their documented contract.  *)
(*                                                                         *)
(* Spec is one monitor, FairSpec the same with its loop scheduled fairly,  *)
(* TwoSpec the two monitors of main.py side by side.                       *)
(***************************************************************************)
EXTENDS Integers, Sequences, FiniteSets, TLC

-----------------------------------------------------------------------------
(* Bounds and parameters *)

\* max_errors of CameraMonitor.__init__ (default 50), kept small
MaxErrors == 2

\* add_seconds_after_motion of CameraMonitor.__init__ (default 3), kept small
AddSeconds == 2

\* max_history_size of the FPSCalculator (50 in __init__), kept small
MaxHistory == 2

\* fixed-point scale of FPS values and of add_frames
FpsScale == 4

\* FPS estimates the estimator may report: 1.0, 1.25 and 2.0 frames per second
FpsValues == {FpsScale, FpsScale + 1, 2 * FpsScale}

\* nominal FPS values the capture device may report (CAP_PROP_FPS): 1.0, 2.0
NominalFpsValues == {FpsScale, 2 * FpsScale}

\* the failed reads of one behaviour are limited to this many
MaxTotalFails == MaxErrors + 2

\* Python's None, as returned by FPSCalculator.current_fps()
None == 0 - 1

\* the AttributeError raised by evaluating self.fps in current_fps()
AttributeError == 0 - 2

-----------------------------------------------------------------------------
VARIABLES
    pc,             \* position of run(): "start", "running", "open_failed",
                    \* "exhausted" (break + release), "crashed" (exception)
    opened,         \* the capture device is open and not released
    release_count,  \* number of calls of camera.release()
    camera_fps,     \* self.camera_fps (None before it is read)
    error_count,    \* local error_count of run()
    add_frames,     \* self.add_frames
    motion,         \* MotionDetector.is_motion_detected()
    recording,      \* VideoRecorder.is_recording()
    rec_fps,        \* fps given to the last start_recording (None before)
    samples,        \* number of timestamps in the FPSCalculator history
    fps_est,        \* estimate of the FPSCalculator (None if fewer than 2)
    stop_requested, \* graceful_exit of main.py has called stop()
    trace,          \* the calls made by the last step, in order
    last_read,      \* history: "none", "ok" or "fail"
    consec_fails,   \* history: failed reads since the last successful one
    total_fails,    \* history: failed reads of the whole behaviour
    padding,        \* history: value given to add_frames by the last callback
    drained,        \* history: motion-inactive frames seen since the callback
    iters_after_stop, \* history: loop iterations begun after stop() (max 2)
    edge,           \* history: "tie" if the last step brought motion back on
                    \* the observation that would have ended the drain,
                    \* "restart" if it started a session on the frame after
                    \* the one that ended a session, else "none"
    fails_in_drain, \* history: a read failed during the present drain
    peer            \* the second monitor of main.py (camera_monitor2) and
                    \* its recorder (video_recorder2), as a record

vars == <<pc, opened, release_count, camera_fps, error_count, add_frames,
          motion, recording, rec_fps, samples, fps_est, stop_requested,
          trace, last_read, consec_fails, total_fails, padding, drained,
          iters_after_stop, edge, fails_in_drain, peer>>

\* the variables of the first monitor, its recorder's state left out
unit_vars_but_recording ==
    <<pc, opened, release_count, camera_fps, error_count, add_frames, motion,
      rec_fps, samples, fps_est, stop_requested, trace, last_read,
      consec_fails, total_fails, padding, drained, iters_after_stop, edge,
      fails_in_drain>>

Min(a, b) == IF a < b THEN a ELSE b

Has(s, e) == \E i \in 1..Len(s) : s[i] = e

-----------------------------------------------------------------------------
(* Collaborators, from their contract *)

\* MotionDetector.update: the callback is invoked on an idle -> active change
MotionDetector_fires(old, new) == ~old /\ new

\* FPSCalculator.current_fps: None until two samples exist
FPSCalculator_current_fps(s, est) == IF s < 2 THEN None ELSE est

\* FPSCalculator.update: one more timestamp in the bounded history
FPSCalculator_update(s) == Min(s + 1, MaxHistory)

\* VideoRecorder.start_recording / end_recording, seen through is_recording.
\* The call of run(), line 131, spells the method with a Cyrillic first
\* letter; it is taken to be the recorder's end-of-recording method.
VideoRecorder_start_recording(r) == TRUE

VideoRecorder_end_recording(r) == FALSE

-----------------------------------------------------------------------------
(* CameraMonitor *)

\* current_fps(): the estimate, or - when it is None - the warning's f-string
\* reads self.fps, an attribute that does not exist
current_fps(s, est, cam) ==
    IF FPSCalculator_current_fps(s, est) = None
    THEN AttributeError
    ELSE FPSCalculator_current_fps(s, est)

\* (variant: the countdown is set only after the is_recording() early return)
motion_callback_add_frames_after_return(fps, af, r) ==
    IF r THEN af ELSE AddSeconds * fps

\* (variant: the countdown is taken from the camera's nominal FPS)
motion_callback_add_frames_nominal(fps, af, r) == AddSeconds * camera_fps

\* motion_callback, line 68: the padding countdown, set on every callback,
\* whatever the old value af and the recorder's state r
motion_callback_add_frames(fps, af, r) == AddSeconds * fps

\* (variant: no is_recording() check)
motion_callback_starts_always(r) == TRUE

\* motion_callback, lines 70-80: start only if not recording
motion_callback_starts(r) == ~r

\* (variant: > instead of >=)
run_budget_exhausted_late(ec) == ec > MaxErrors

\* run, line 110: the error budget is used up
run_budget_exhausted(ec) == ec >= MaxErrors

\* (variant: the counter is not reset)
run_reset_error_count_missing(ec) == ec

\* run, line 119
run_reset_error_count(ec) == 0

\* (variant: the motion flag is not looked at)
run_is_drain_ignores_motion(m, r) == r

\* run, line 128: this frame is a drain frame
run_is_drain(m, r) == ~m /\ r

\* (variant: the countdown is not decremented)
run_decrement_missing(af) == af

\* run, line 129
run_decrement(af) == af - FpsScale

\* (variant: < instead of <=)
run_drain_over_late(af) == af < 0

\* run, line 130
run_drain_over(af) == af <= 0

\* (variant: the frame is handed over only while a recording is active)
run_forwards_frame_if_recording(r) == r

\* run, lines 133-136: every frame is handed to the recorder, whatever
\* is_recording() says ("it's up to the video recorder to decide")
run_forwards_frame(r) == TRUE

\* (variant: the frame is published before the detector has seen it)
run_calls_publish_first(fires, strt, drn, stp, fwd) ==
    <<"read", "publish", "update">>
    \o (IF fires THEN <<"callback">> ELSE <<>>)
    \o (IF strt THEN <<"start_recording">> ELSE <<>>)
    \o (IF drn THEN <<"drain">> ELSE <<>>)
    \o (IF stp THEN <<"end_recording">> ELSE <<>>)
    \o (IF fwd THEN <<"add_frame">> ELSE <<>>)
    \o <<"fps_update">>

\* (variant: the frame is handed to the recorder before the drain decision)
run_calls_add_frame_first(fires, strt, drn, stp, fwd) ==
    <<"read", "update">>
    \o (IF fires THEN <<"callback">> ELSE <<>>)
    \o (IF strt THEN <<"start_recording">> ELSE <<>>)
    \o <<"publish">>
    \o (IF fwd THEN <<"add_frame">> ELSE <<>>)
    \o (IF drn THEN <<"drain">> ELSE <<>>)
    \o (IF stp THEN <<"end_recording">> ELSE <<>>)
    \o <<"fps_update">>

\* run, lines 99 and 119-137: the calls of an iteration whose read succeeds,
\* in the order of the statements.  The callback (and its start_recording)
\* runs inside motion_detector.update, line 122, before the publish.
run_calls(fires, strt, drn, stp, fwd) ==
    <<"read", "update">>
    \o (IF fires THEN <<"callback">> ELSE <<>>)
    \o (IF strt THEN <<"start_recording">> ELSE <<>>)
    \o <<"publish">>
    \o (IF drn THEN <<"drain">> ELSE <<>>)
    \o (IF stp THEN <<"end_recording">> ELSE <<>>)
    \o (IF fwd THEN <<"add_frame">> ELSE <<>>)
    \o <<"fps_update">>

Init ==
    /\ pc = "start"
    /\ opened = FALSE
    /\ release_count = 0
    /\ camera_fps = None
    /\ error_count = 0
    /\ add_frames = 0
    /\ motion = FALSE
    /\ recording = FALSE
    /\ rec_fps = None
    /\ samples = 0
    /\ fps_est = None
    /\ stop_requested = FALSE
    /\ trace = <<>>
    /\ last_read = "none"
    /\ consec_fails = 0
    /\ total_fails = 0
    /\ padding = 0
    /\ drained = 0
    /\ iters_after_stop = 0
    /\ edge = "none"
    /\ fails_in_drain = FALSE
    /\ peer = [pc |-> "start", opened |-> FALSE, release_count |-> 0,
               camera_fps |-> None, error_count |-> 0, add_frames |-> 0,
               motion |-> FALSE, recording |-> FALSE, samples |-> 0,
               fps_est |-> None, trace |-> <<>>, ran_after_failure |-> FALSE]

\* run, lines 85-97: the device opens
OpenOk(nominal) ==
    /\ UNCHANGED peer
    /\ pc = "start"
    /\ pc' = "running"
    /\ opened' = TRUE
    /\ camera_fps' = nominal
    /\ error_count' = 0
    /\ trace' = <<"open">>
    /\ UNCHANGED <<release_count, add_frames, motion, recording, rec_fps,
                   samples, fps_est, stop_requested, last_read, consec_fails,
                   total_fails, padding, drained, iters_after_stop, edge,
                   fails_in_drain>>

\* (variant: no return after the error message; the loop is entered)
OpenFail_no_return ==
    /\ UNCHANGED peer
    /\ pc = "start"
    /\ pc' = "running"
    /\ trace' = <<"open">>
    /\ UNCHANGED <<opened, release_count, camera_fps, error_count, add_frames,
                   motion, recording, rec_fps, samples, fps_est,
                   stop_requested, last_read, consec_fails, total_fails,
                   padding, drained, iters_after_stop, edge, fails_in_drain>>

\* run, lines 85-90: the device does not open; run() returns
OpenFail ==
    /\ UNCHANGED peer
    /\ pc = "start"
    /\ pc' = "open_failed"
    /\ trace' = <<"open">>
    /\ UNCHANGED <<opened, release_count, camera_fps, error_count, add_frames,
                   motion, recording, rec_fps, samples, fps_est,
                   stop_requested, last_read, consec_fails, total_fails,
                   padding, drained, iters_after_stop, edge, fails_in_drain>>

\* (variant: fps_calculator.update() is called before the success check)
ReadFail_updates_fps ==
    /\ UNCHANGED peer
    /\ pc = "running"
    /\ total_fails < MaxTotalFails
    /\ error_count' = error_count + 1
    /\ IF run_budget_exhausted(error_count + 1)
       THEN /\ pc' = "exhausted"
            /\ opened' = FALSE
            /\ release_count' = release_count + 1
            /\ trace' = <<"read", "fps_update", "release">>
       ELSE /\ pc' = "running"
            /\ trace' = <<"read", "fps_update", "sleep">>
            /\ UNCHANGED <<opened, release_count>>
    /\ samples' = FPSCalculator_update(samples)
    /\ fps_est' = IF FPSCalculator_update(samples) < 2 THEN None
                  ELSE FpsScale
    /\ last_read' = "fail"
    /\ consec_fails' = consec_fails + 1
    /\ total_fails' = total_fails + 1
    /\ iters_after_stop' = IF stop_requested
                           THEN Min(iters_after_stop + 1, 2)
                           ELSE iters_after_stop
    /\ edge' = "none"
    /\ fails_in_drain' = (fails_in_drain \/ (recording /\ ~motion))
    /\ UNCHANGED <<camera_fps, add_frames, motion, recording, rec_fps,
                   stop_requested, padding, drained>>

\* run, lines 99-116 and 140: an iteration whose read fails
ReadFail ==
    /\ UNCHANGED peer
    /\ pc = "running"
    /\ total_fails < MaxTotalFails
    /\ error_count' = error_count + 1
    /\ IF run_budget_exhausted(error_count + 1)
       THEN /\ pc' = "exhausted"
            /\ opened' = FALSE
            /\ release_count' = release_count + 1
            /\ trace' = <<"read", "release">>
       ELSE /\ pc' = "running"
            /\ trace' = <<"read", "sleep">>
            /\ UNCHANGED <<opened, release_count>>
    /\ last_read' = "fail"
    /\ consec_fails' = consec_fails + 1
    /\ total_fails' = total_fails + 1
    /\ iters_after_stop' = IF stop_requested
                           THEN Min(iters_after_stop + 1, 2)
                           ELSE iters_after_stop
    /\ edge' = "none"
    /\ fails_in_drain' = (fails_in_drain \/ (recording /\ ~motion))
    /\ UNCHANGED <<camera_fps, add_frames, motion, recording, rec_fps,
                   samples, fps_est, stop_requested, padding, drained>>

\* run, lines 99 and 119-137: an iteration whose read succeeds.  m is the
\* detector's verdict on the frame, f the estimate after this frame's sample.
ReadOk(m, f) ==
    /\ UNCHANGED peer
    /\ pc = "running"
    /\ LET fires == MotionDetector_fires(motion, m)
           fps   == current_fps(samples, fps_est, camera_fps)
       IN
       IF fires /\ fps = AttributeError
       THEN \* the exception leaves run(): nothing after line 60 is executed
            /\ pc' = "crashed"
            /\ trace' = <<"read", "update", "callback", "raise">>
            /\ edge' = "none"
            /\ UNCHANGED <<add_frames, recording, rec_fps, samples, fps_est,
                           padding, drained, fails_in_drain>>
       ELSE LET af1  == IF fires
                        THEN motion_callback_add_frames(fps, add_frames,
                                                        recording)
                        ELSE add_frames
                strt == fires /\ motion_callback_starts(recording)
                rec1 == IF strt THEN VideoRecorder_start_recording(recording)
                                ELSE recording
                drn  == run_is_drain(m, rec1)
                af2  == IF drn THEN run_decrement(af1) ELSE af1
                stp  == drn /\ run_drain_over(af2)
                rec2 == IF stp THEN VideoRecorder_end_recording(rec1)
                               ELSE rec1
                s2   == FPSCalculator_update(samples)
            IN
            /\ pc' = "running"
            /\ add_frames' = af2
            /\ recording' = rec2
            /\ rec_fps' = IF strt THEN fps ELSE rec_fps
            /\ samples' = s2
            /\ fps_est' = IF s2 < 2 THEN None ELSE f
            /\ padding' = IF fires THEN af1 ELSE padding
            /\ drained' = IF fires THEN 0
                          ELSE IF drn THEN drained + 1 ELSE drained
            /\ trace' = run_calls(fires, strt, drn, stp,
                                  run_forwards_frame(rec2))
            /\ edge' = IF fires /\ recording /\ add_frames <= FpsScale
                       THEN "tie"
                       ELSE IF strt /\ Has(trace, "end_recording")
                            THEN "restart"
                            ELSE "none"
            /\ fails_in_drain' = (~fires /\ fails_in_drain)
    /\ motion' = m
    /\ error_count' = run_reset_error_count(error_count)
    /\ last_read' = "ok"
    /\ consec_fails' = 0
    /\ iters_after_stop' = IF stop_requested
                           THEN Min(iters_after_stop + 1, 2)
                           ELSE iters_after_stop
    /\ UNCHANGED <<opened, release_count, camera_fps, stop_requested,
                   total_fails>>

\* main.py, graceful_exit: stop() is called on the monitor.  CameraMonitor
\* defines no stop() and run() reads no flag: nothing of the monitor changes.
GracefulExit ==
    /\ UNCHANGED peer
    /\ pc = "running"
    /\ ~stop_requested
    /\ stop_requested' = TRUE
    /\ trace' = <<"stop">>
    /\ edge' = "none"
    /\ UNCHANGED <<pc, opened, release_count, camera_fps, error_count,
                   add_frames, motion, recording, rec_fps, samples, fps_est,
                   last_read, consec_fails, total_fails, padding, drained,
                   iters_after_stop, fails_in_drain>>

Next ==
    \/ \E nominal \in NominalFpsValues : OpenOk(nominal)
    \/ OpenFail
    \/ ReadFail
    \/ \E m \in BOOLEAN, f \in FpsValues : ReadOk(m, f)
    \/ GracefulExit

Spec == Init /\ [][Next]_vars

\* One pass through the body of "while True" (lines 98-137)
Iterate ==
    \/ ReadFail
    \/ \E m \in BOOLEAN, f \in FpsValues : ReadOk(m, f)

-----------------------------------------------------------------------------
(* The second monitor.  main.py starts two CameraMonitor threads, each with a
   VideoRecorder of its own; the second runs the same code on the record
   peer.  Monitor 0 is the one of the variables above. *)

\* (variant: both monitors are given the first recorder)
main_recorder_of_shared(cam) == 0

\* main.py, lines 126-129, 149-150, 162-170: the recorder given to a monitor
main_recorder_of(cam) == cam

\* is_recording() of the recorder the second monitor holds
PeerRecording ==
    IF main_recorder_of(1) = 0 THEN recording ELSE peer.recording

\* The second monitor's step leaves np in peer and r in its recorder
PeerWrites(np, r) ==
    IF main_recorder_of(1) = 0
    THEN /\ recording' = r
         /\ peer' = np
    ELSE /\ recording' = recording
         /\ peer' = [np EXCEPT !.recording = r]

\* FPS values of the two-monitor specification
TwoUnitFps == {FpsScale, FpsScale + 1}

\* run of the second monitor, lines 85-97
PeerOpenOk(nominal) ==
    /\ peer.pc = "start"
    /\ peer' = [peer EXCEPT !.pc = "running", !.opened = TRUE,
                            !.camera_fps = nominal, !.error_count = 0,
                            !.trace = <<"open">>]
    /\ UNCHANGED <<unit_vars_but_recording, recording>>

\* run of the second monitor, lines 85-90
PeerOpenFail ==
    /\ peer.pc = "start"
    /\ peer' = [peer EXCEPT !.pc = "open_failed", !.trace = <<"open">>]
    /\ UNCHANGED <<unit_vars_but_recording, recording>>

\* run of the second monitor, lines 99-116 and 140
PeerReadFail ==
    /\ peer.pc = "running"
    /\ peer' = IF run_budget_exhausted(peer.error_count + 1)
               THEN [peer EXCEPT !.error_count = @ + 1,
                                 !.pc = "exhausted",
                                 !.opened = FALSE,
                                 !.release_count = @ + 1,
                                 !.trace = <<"read", "release">>]
               ELSE [peer EXCEPT !.error_count = @ + 1,
                                 !.trace = <<"read", "sleep">>]
    /\ UNCHANGED <<unit_vars_but_recording, recording>>

\* run of the second monitor, lines 99 and 119-137
PeerReadOk(m, f) ==
    /\ peer.pc = "running"
    /\ LET fires == MotionDetector_fires(peer.motion, m)
           fps   == current_fps(peer.samples, peer.fps_est, peer.camera_fps)
       IN
       IF fires /\ fps = AttributeError
       THEN /\ peer' = [peer EXCEPT
                          !.pc = "crashed",
                          !.motion = m,
                          !.error_count = run_reset_error_count(@),
                          !.trace = <<"read", "update", "callback", "raise">>]
            /\ UNCHANGED recording
       ELSE LET rec0 == PeerRecording
                af1  == IF fires
                        THEN motion_callback_add_frames(fps, peer.add_frames,
                                                        rec0)
                        ELSE peer.add_frames
                strt == fires /\ motion_callback_starts(rec0)
                rec1 == IF strt THEN VideoRecorder_start_recording(rec0)
                                ELSE rec0
                drn  == run_is_drain(m, rec1)
                af2  == IF drn THEN run_decrement(af1) ELSE af1
                stp  == drn /\ run_drain_over(af2)
                rec2 == IF stp THEN VideoRecorder_end_recording(rec1)
                               ELSE rec1
                s2   == FPSCalculator_update(peer.samples)
            IN
            PeerWrites([peer EXCEPT
                          !.motion = m,
                          !.error_count = run_reset_error_count(@),
                          !.add_frames = af2,
                          !.samples = s2,
                          !.fps_est = IF s2 < 2 THEN None ELSE f,
                          !.trace = run_calls(fires, strt, drn, stp,
                                              run_forwards_frame(rec2)),
                          !.ran_after_failure =
                              (@ \/ pc \in {"open_failed", "exhausted",
                                            "crashed"})],
                       rec2)
    /\ UNCHANGED unit_vars_but_recording

\* Both monitors of main.py, the FPS estimates taken from TwoUnitFps
TwoNext ==
    \/ \E nominal \in TwoUnitFps : OpenOk(nominal)
    \/ OpenFail
    \/ ReadFail
    \/ \E m \in BOOLEAN, f \in TwoUnitFps : ReadOk(m, f)
    \/ \E nominal \in TwoUnitFps : PeerOpenOk(nominal)
    \/ PeerOpenFail
    \/ PeerReadFail
    \/ \E m \in BOOLEAN, f \in TwoUnitFps : PeerReadOk(m, f)

TwoSpec == Init /\ [][TwoNext]_vars

\* The thread of run() is scheduled for as long as its loop has not ended
FairSpec == Spec /\ WF_vars(Iterate)

-----------------------------------------------------------------------------
(* Properties *)

Ended == pc \in {"open_failed", "exhausted", "crashed"}

\* The estimate current_fps() hands out in the present state
EstimateNow == FPSCalculator_current_fps(samples, fps_est)

\* Smallest number of whole frames that is at least p/FpsScale frames
Ceil(p) == CHOOSE d \in 0..(p + 1) : d * FpsScale >= p /\ (d - 1) * FpsScale < p

\* C1: a camera never has two recording sessions at once: no step calls
\* start_recording while the recorder is recording; a motion callback during
\* an active session leaves the session as it is.
C1_NoSecondSession ==
    [][Has(trace', "start_recording") => ~recording /\ recording']_vars

\* C1 witness: the callback fired while a session was active, without a start
C1_Witness ==
    /\ recording
    /\ Has(trace, "callback")
    /\ ~Has(trace, "start_recording")

\* C2: once max_errors reads in a row have failed the loop has ended and
\* release() has been called exactly once; release() is never called twice.
C2_ExhaustedReleasesOnce ==
    /\ release_count <= 1
    /\ consec_fails >= MaxErrors =>
          pc = "exhausted" /\ release_count = 1 /\ ~opened
    /\ pc = "exhausted" => ~ENABLED Next

\* C2 witness: the error budget is used up
C2_Witness == pc = "exhausted" /\ consec_fails = MaxErrors /\ release_count = 1

\* C3: right after a successful read the consecutive-error counter is 0,
\* however many failed reads came before.
C3_ZeroAfterSuccess == last_read = "ok" => error_count = 0

\* C3 witness: a successful read after failed ones
C3_Witness == last_read = "ok" /\ total_fails > 0 /\ error_count = 0

\* C4: the loop ends on account of read failures only when max_errors of them
\* came in a row; a success after a shorter run restores the whole budget and
\* the loop has not taken the error exit, however many reads failed in total.
C4_OnlyConsecutiveFailuresEnd ==
    /\ pc = "exhausted" => consec_fails = MaxErrors /\ last_read = "fail"
    /\ last_read = "ok" => pc # "exhausted" /\ error_count = 0
    /\ pc = "running" => error_count = consec_fails /\ error_count < MaxErrors

\* C4 witness: more failed reads than max_errors in total, and still running
C4_Witness == pc = "running" /\ last_read = "ok" /\ total_fails > MaxErrors

\* C5 as stated: end_recording comes on the N-th motion-inactive frame, N
\* being post_motion_seconds x FPS (here padding / FpsScale).
C5_ExactlyN == Has(trace, "end_recording") => drained * FpsScale = padding

\* C5 amended: with N = post_motion_seconds x the FPS estimate of the last
\* motion callback, a float, end_recording comes on the ceil(N)-th
\* motion-inactive frame and on no earlier one (on the N-th if N is whole).
C5_CeilN ==
    /\ recording => padding \in {AddSeconds * v : v \in FpsValues}
    /\ Has(trace, "end_recording") =>
          ~recording /\ ~motion /\ drained = Ceil(padding)
    /\ recording /\ ~motion => drained >= 1 /\ drained < Ceil(padding)
    /\ recording /\ motion => drained = 0

\* C5 witness: a drain ended where N is not a whole number
C5_Witness == Has(trace, "end_recording") /\ drained * FpsScale > padding

\* C6: motion coming back during a drain ends nothing and starts nothing:
\* the session goes on and the countdown is back at the full padding.
C6_RetriggerKeepsSession ==
    [][(pc = "running" /\ recording /\ ~motion /\ motion') =>
          /\ pc' = "running"
          /\ recording'
          /\ Has(trace', "callback")
          /\ ~Has(trace', "end_recording")
          /\ ~Has(trace', "start_recording")
          /\ add_frames' = AddSeconds * EstimateNow
          /\ add_frames' >= AddSeconds * FpsScale]_vars

\* C6 witness: a drain was interrupted by motion and the countdown is whole
C6_Witness ==
    /\ recording /\ motion
    /\ Has(trace, "callback")
    /\ ~Has(trace, "start_recording")
    /\ add_frames = padding
    /\ drained = 0

\* C7 as stated: whichever way run() ends, the device is not left open.
C7_ReleasedOnEveryExit == Ended => ~opened

\* C8 as stated: after stop() the loop ends within one iteration.
C8_StopsWithinOneIteration == iters_after_stop <= 1

\* C9 as stated: a motion callback never aborts the unit; the recording
\* starts, with the nominal FPS when no estimate exists.
C9_CallbackStartsRecording ==
    Has(trace, "callback") =>
        /\ pc = "running"
        /\ recording
        /\ (Has(trace, "start_recording") => rec_fps \in FpsValues \cup {camera_fps})

\* C10 as stated: on the first motion-inactive frame of a session the
\* countdown is post_motion_seconds x the estimate of that moment (before or
\* after that frame's own decrement).
C10_ComputedAtDrainStart ==
    [][(pc = "running" /\ recording /\ motion /\ ~motion') =>
          add_frames' \in {AddSeconds * EstimateNow,
                           AddSeconds * EstimateNow - FpsScale}]_vars

\* C10 amended: the countdown is computed by the motion callback (session
\* start or re-trigger) as post_motion_seconds x the estimate of that moment;
\* a motion-inactive frame of a session only takes one frame off it, and no
\* other step changes it, whatever the estimate has become.
C10_ComputedAtCallback ==
    [][pc' = "running" =>
          /\ Has(trace', "callback") => add_frames' = AddSeconds * EstimateNow
          /\ Has(trace', "drain") =>
                ~Has(trace', "callback") /\ add_frames' = add_frames - FpsScale
          /\ ~Has(trace', "callback") /\ ~Has(trace', "drain") =>
                add_frames' = add_frames]_vars

\* C10 witness: in a drain, the estimate is no longer the one the countdown
\* was computed from
C10_Witness ==
    /\ recording /\ ~motion
    /\ drained >= 1
    /\ AddSeconds * EstimateNow # padding
    /\ add_frames = padding - drained * FpsScale

\* Number of times the call e was made in the step whose calls are s
Count(s, e) == Cardinality({i \in 1..Len(s) : s[i] = e})

\* In s, every call a comes before every call b
Before(s, a, b) == \A i, j \in 1..Len(s) : s[i] = a /\ s[j] = b => i < j

\* C11 as stated: a frame is handed to add_frame only while a recording
\* session is active at that point (nothing after add_frame changes it).
C11_ForwardedOnlyWhenRecording == Has(trace, "add_frame") => recording

\* C11 amended: every successfully read frame whose iteration runs to its end
\* is handed to add_frame exactly once, session or no session; a failed read
\* hands over nothing.
C11_EveryFrameForwarded ==
    /\ Has(trace, "publish") => Count(trace, "add_frame") = 1
    /\ Has(trace, "add_frame") => last_read = "ok" /\ Has(trace, "read")

\* C11 witness: a frame handed over although no session was ever started
C11_Witness ==
    /\ Has(trace, "add_frame")
    /\ ~recording
    /\ ~Has(trace, "end_recording")
    /\ rec_fps = None

\* C12: a failed read adds one to the error counter and may end the loop; it
\* publishes nothing, calls neither the detector nor the recorder nor the
\* FPS estimator, and leaves recording state and countdown as they were.
C12_FailedReadChangesNothing ==
    [][total_fails' # total_fails =>
          /\ error_count' = error_count + 1
          /\ UNCHANGED <<motion, recording, rec_fps, add_frames, samples,
                         fps_est, camera_fps, padding, drained>>
          /\ \A e \in {"update", "callback", "start_recording", "publish",
                       "drain", "end_recording", "add_frame", "fps_update"} :
                ~Has(trace', e)]_vars

\* C12 witness: a read failed in the middle of a drain and the loop goes on
C12_Witness ==
    /\ last_read = "fail" /\ pc = "running"
    /\ Has(trace, "sleep")
    /\ recording /\ ~motion
    /\ fails_in_drain

\* C13: a frame on which motion is active never ends the recording, also not
\* when the next motion-inactive frame would have been the last of the drain:
\* the session goes on, with no second start.  If a session ended on one frame
\* and motion is back on the next, that next frame starts the new session
\* before it is handed to the recorder.
C13_MotionTakesPrecedence ==
    [][(Has(trace', "update") /\ motion') =>
          /\ ~Has(trace', "drain")
          /\ ~Has(trace', "end_recording")
          /\ recording =>
                /\ pc' = "running"
                /\ recording'
                /\ ~Has(trace', "start_recording")
          /\ Has(trace, "end_recording") =>
                /\ pc' = "running"
                /\ recording'
                /\ Has(trace', "start_recording")
                /\ Before(trace', "start_recording", "add_frame")]_vars

\* C13 witness: motion came back on the observation that would have brought
\* the countdown to zero, and the session is still the same one
C13_Witness ==
    /\ edge = "tie"
    /\ recording /\ motion
    /\ ~Has(trace, "start_recording")
    /\ ~Has(trace, "end_recording")

\* C14 as stated: detector update, publish, recording-state update (start,
\* drain, stop), add_frame, FPS update, in this order; no recording-state
\* transition of a frame comes before the frame's publish.
C14_StatedOrder ==
    Has(trace, "update") /\ ~Has(trace, "raise") =>
        /\ Before(trace, "update", "publish")
        /\ Before(trace, "publish", "start_recording")
        /\ Before(trace, "publish", "drain")
        /\ Before(trace, "publish", "end_recording")
        /\ Before(trace, "start_recording", "add_frame")
        /\ Before(trace, "end_recording", "add_frame")
        /\ Before(trace, "add_frame", "fps_update")

\* C14 amended: each successfully read frame is processed once, before the
\* next read, in this order: detector update - inside which the motion
\* callback, on an idle -> active change, sets the countdown and starts the
\* recording - then publish, drain/stop decision, add_frame, FPS update.  The
\* start comes before the frame's publish, drain and stop after it.
C14_CodeOrder ==
    Has(trace, "update") /\ ~Has(trace, "raise") =>
        /\ trace[1] = "read"
        /\ \A e \in {"read", "update", "publish", "add_frame", "fps_update"} :
              Count(trace, e) = 1
        /\ \A e \in {"callback", "start_recording", "drain", "end_recording"} :
              Count(trace, e) <= 1
        /\ Before(trace, "update", "callback")
        /\ Before(trace, "callback", "start_recording")
        /\ Before(trace, "update", "publish")
        /\ Before(trace, "callback", "publish")
        /\ Before(trace, "start_recording", "publish")
        /\ Before(trace, "publish", "drain")
        /\ Before(trace, "drain", "end_recording")
        /\ Before(trace, "publish", "add_frame")
        /\ Before(trace, "drain", "add_frame")
        /\ Before(trace, "end_recording", "add_frame")
        /\ Before(trace, "add_frame", "fps_update")
        /\ trace[Len(trace)] = "fps_update"

\* C14 witness: a frame that started a recording and was published
C14_Witness ==
    /\ Has(trace, "start_recording")
    /\ Has(trace, "publish")
    /\ recording

\* The device did not open
OpenFailed == pc # "start" /\ ~opened /\ release_count = 0

\* C16: if the device does not open the unit ends at once: nothing is read or
\* published, detector, recorder and estimator are not called, no recording
\* is started, and no further step is taken.
C16_OpenFailureEndsUnit ==
    OpenFailed =>
        /\ pc = "open_failed"
        /\ ~ENABLED Next
        /\ trace = <<"open">>
        /\ last_read = "none" /\ total_fails = 0 /\ error_count = 0
        /\ ~motion /\ ~recording /\ rec_fps = None
        /\ samples = 0 /\ fps_est = None
        /\ add_frames = 0

\* C16 witness: the open failed
C16_Witness == pc = "open_failed" /\ ~opened /\ last_read = "none"

\* C17: the frame whose detector update fires the callback that starts the
\* session is handed to add_frame after start_recording, the session being
\* active; the frame on which end_recording is called is handed to add_frame
\* after the session has ended.
C17_StartBeforeEndBeforeAddFrame ==
    /\ Has(trace, "start_recording") =>
          /\ Has(trace, "callback")
          /\ Count(trace, "add_frame") = 1
          /\ Before(trace, "start_recording", "add_frame")
          /\ recording /\ motion
    /\ Has(trace, "end_recording") =>
          /\ Count(trace, "add_frame") = 1
          /\ Before(trace, "end_recording", "add_frame")
          /\ ~recording /\ ~motion

\* C17 witness: the frame that ended the session, handed over after the end
C17_Witness ==
    /\ Has(trace, "end_recording")
    /\ Has(trace, "add_frame")
    /\ ~recording
    /\ drained >= 1

\* C18 as stated: when the loop has ended no recording session is active.
C18_NoSessionAfterExit == pc = "exhausted" => ~recording

\* C19 as stated: the session ends after exactly N successful motion-inactive
\* frames, i.e. with the countdown at exactly zero.
C19_EndsAtExactlyZero == Has(trace, "end_recording") => add_frames = 0

\* C19 amended: if motion eventually stays inactive and the error budget is
\* never used up, every active session ends; a failed read leaves the
\* countdown alone, and the session ends on the ceil(N)-th successful
\* motion-inactive frame, N being the padding of the last callback, however
\* many failed reads lie in between.
C19_SessionEnds ==
    /\ (<>[](~motion) /\ [](pc # "exhausted")) => (recording ~> ~recording)
    /\ [][total_fails' # total_fails =>
             UNCHANGED <<add_frames, drained, padding, recording>>]_vars
    /\ [][Has(trace', "end_recording") => drained' = Ceil(padding')]_vars
    /\ [][recording' /\ ~motion' => drained' < Ceil(padding')]_vars

\* C19 witness: a session that ended although a read failed during its drain
C19_Witness ==
    /\ Has(trace, "end_recording")
    /\ fails_in_drain
    /\ ~recording
    /\ drained = Ceil(padding)

\* What the claim names of the first monitor: its position, error counter,
\* recording state, countdown and published frames (the calls of its step)
Unit0View ==
    <<pc, opened, error_count, recording, add_frames, motion, samples,
      fps_est, trace>>

\* The same of the second monitor
PeerView ==
    <<peer.pc, peer.opened, peer.error_count, PeerRecording, peer.add_frames,
      peer.motion, peer.samples, peer.fps_est, peer.trace>>

\* C15: the two monitors share no mutable state: no step changes anything of
\* both; in particular the step in which one monitor fails (open failure,
\* error budget used up, exception) leaves the other monitor's error counter,
\* recording state, countdown and published frames as they were, and the
\* other monitor running.
C15_UnitsIndependent ==
    [][/\ ~(Unit0View' # Unit0View /\ PeerView' # PeerView)
       /\ (pc' # pc /\ pc' # "running") =>
             PeerView' = PeerView /\ peer' = peer
       /\ (peer'.pc # peer.pc /\ peer'.pc # "running") =>
             Unit0View' = Unit0View /\ UNCHANGED unit_vars_but_recording]_vars

\* C15 witness: the first monitor has used up its error budget with a
\* session open, and the second has since read a frame and is recording
C15_Witness ==
    /\ pc = "exhausted" /\ recording
    /\ peer.pc = "running"
    /\ peer.ran_after_failure
    /\ Has(peer.trace, "publish")
    /\ PeerRecording /\ ~peer.motion
    /\ peer.error_count = 0

=============================================================================
